---- MODULE Spec2Model ----
(***************************************************************************)
(* Xero media accrual plug-in: the create-campaign handler, the settings   *)
(* handler and the webhook reconciler of src/src/index.ts, as a state      *)
(* machine.  Requests interleave only at their await points: every action  *)
(* below is the completion of one awaited accounting-API call followed by  *)
(* the synchronous code that runs up to the next await.                    *)
(* Amounts are integers in thousandths of the currency unit.               *)
(***************************************************************************)
EXTENDS Integers, Sequences, FiniteSets, TLC

(* ----------------------------- bounds ---------------------------------- *)
MaxRequests == 2
MaxSettingsWrites == 1

(* ------------------------- program constants --------------------------- *)
RecentCap == 20
DigestLen == 44

VARIABLES
  mem,              \* the in-memory state object `mem`
  XERO_WEBHOOK_KEY, \* process.env.XERO_WEBHOOK_KEY ("" when unset)
  xeroTenants,      \* accounting provider: tenants of the connection
  bills,            \* accounting provider: documents that getInvoice can fetch
  calls,            \* accounting provider: the writes it has accepted
  reqs,             \* the HTTP requests, in order of arrival, with their locals
  settingsWrites    \* number of POST /api/settings requests served so far

vars == <<mem, XERO_WEBHOOK_KEY, xeroTenants, bills, calls, reqs, settingsWrites>>

Reqs == 1..MaxRequests

(* ------------------------------ helpers -------------------------------- *)
Abs(x) == IF x < 0 THEN -x ELSE x

\* Map.get(k) || 0
MapGetOr0(m, k) == IF k \in DOMAIN m THEN m[k] ELSE 0

\* Map.set(k, v)
MapSet(m, k, v) == [x \in DOMAIN m \cup {k} |-> IF x = k THEN v ELSE m[x]]

\* Number.prototype.toFixed(2) read back with Number(): the nearest multiple
\* of 0.01, the larger magnitude on a tie
ToFixed2(x) ==
  LET n == (Abs(x) + 5) \div 10 IN IF x < 0 THEN -(n * 10) ELSE n * 10

\* String.prototype.toLowerCase on the tax names that occur
ToLowerCase(s) ==
  CASE s = "20% (VAT on Income)" -> "20% (vat on income)"
    [] s = "20% (VAT ON INCOME)" -> "20% (vat on income)"
    [] s = "GST" -> "gst"
    [] OTHER -> s

\* log(kind, msg): unshift, then keep the first 20 (the entry's kind is kept,
\* its text and timestamp are not)
log(m, kind, msg) ==
  [m EXCEPT !.recent = SubSeq(<<kind>> \o @, 1,
                              IF Len(@) + 1 > RecentCap THEN RecentCap ELSE Len(@) + 1)]

(* ------------------------ accounting provider -------------------------- *)
TaxRates == <<[name |-> "20% (VAT on Income)", taxType |-> "OUTPUT2"],
              [name |-> "No VAT", taxType |-> ""]>>

Line(d, q, u, a, t) ==
  [description |-> d, quantity |-> q, unitAmount |-> u, accountCode |-> a, taxType |-> t]

Doc(ty, st, ref, lines) ==
  [type |-> ty, status |-> st, reference |-> ref, lineItems |-> lines]

InitialBills ==
  [b \in {"b1", "b2", "b3", "b4", "b5", "b6"} |->
     CASE b = "b1" -> Doc("ACCPAY", "DRAFT", "R1", <<Line("ads", 1, 8500, "500", "INPUT2")>>)
       [] b = "b2" -> Doc("ACCPAY", "SUBMITTED", "R1",
                          <<Line("social", 2, 2000, "500", "INPUT2"),
                            Line("fee", 0, 3500, "429", "NONE")>>)
       [] b = "b3" -> Doc("ACCREC", "DRAFT", "R1", <<Line("sale", 1, 10000, "400", "OUTPUT2")>>)
       [] b = "b4" -> Doc("ACCPAY", "PAID", "R1", <<Line("old", 1, 9000, "500", "INPUT2")>>)
       [] b = "b5" -> Doc("ACCPAY", "DRAFT", "", <<Line("noref", 1, 700, "500", "INPUT2")>>)
       [] b = "b6" -> Doc("ACCPAY", "DRAFT", "R1", <<Line("exact", 1, 8004, "500", "INPUT2")>>)]

NoDoc == Doc("", "", "", <<>>)

(* ------------------------------ requests ------------------------------- *)
NoReq ==
  [kind |-> "none", pc |-> "done", resp |-> 0, body |-> <<>>, trace |-> <<>>,
   i |-> 0, inv |-> NoDoc, campaignRef |-> "", newLines |-> <<>>, jl |-> <<>>,
   netBill |-> 0, accrued |-> 0, variance |-> 0, approve |-> FALSE,
   outcomes |-> <<>>, tenantId |-> "", contactId |-> "", line |-> <<>>, taxName |-> ""]

Started == Cardinality({r \in Reqs : reqs[r].kind # "none"})

\* the next request to arrive takes the next number
CanArrive(r) ==
  /\ reqs[r].kind = "none"
  /\ r = Started + 1

\* one entry of a request's own record of the API calls it awaited
T(ev, op, ok) == [ev |-> ev, op |-> op, ok |-> ok]

Did(q, ev, op, ok) == [q EXCEPT !.trace = Append(@, T(ev, op, ok))]

\* one write accepted by the accounting provider
W(r, q, op, target, lines, pre) ==
  [req |-> r, ev |-> q.i, op |-> op, target |-> target, ref |-> q.campaignRef,
   lines |-> lines, pre |-> pre, inv |-> [type |-> q.inv.type, status |-> q.inv.status,
                                          reference |-> q.inv.reference],
   netBill |-> q.netBill, accrued |-> q.accrued, variance |-> q.variance,
   started |-> Started]

TypeOK ==
  /\ mem.tokenInitialised \in BOOLEAN
  /\ mem.settings.autoApproveBills \in BOOLEAN
  /\ settingsWrites \in 0..MaxSettingsWrites
  /\ \A r \in Reqs : reqs[r].resp \in {0, 200, 400, 401, 500}

(* ------------------------------- Init ---------------------------------- *)
\* mem as declared; autoApproveBills is what the environment variable
\* AUTO_APPROVE_BILLS makes it
InitialMem(auto) ==
  [tenantId |-> "", tokenInitialised |-> FALSE,
   accrualByCampaign |-> <<>>, recent |-> <<>>,
   settings |-> [revenueCode |-> "400", costCode |-> "500",
                 accrualCode |-> "850",
                 salesTaxName |-> "20% (VAT on Income)",
                 autoApproveBills |-> auto]]

Init ==
  /\ \E auto \in BOOLEAN : mem = InitialMem(auto)
  /\ XERO_WEBHOOK_KEY \in {"", "k"}
  /\ xeroTenants = <<>>
  /\ bills = InitialBills
  /\ calls = {}
  /\ reqs = [r \in Reqs |-> NoReq]
  /\ settingsWrites = 0

(* ------------------------- OAuth callback ------------------------------ *)
\* GET /callback: the provider reports the organisations of the connection.
\* The organisation is connected once; a callback whose apiCallback or
\* updateTenants rejects changes nothing and is left out.
Callback ==
  /\ ~mem.tokenInitialised
  /\ \E tenants \in {<<>>, <<"T1">>} :
       /\ xeroTenants' = tenants
       /\ mem' = log([mem EXCEPT !.tokenInitialised = TRUE,
                                 !.tenantId = IF tenants = <<>> THEN "" ELSE tenants[1]],
                     "ok", [what |-> "connected"])
  /\ UNCHANGED <<XERO_WEBHOOK_KEY, bills, calls, reqs, settingsWrites>>


(* ------------------------- POST /api/settings -------------------------- *)
Undefined == [t |-> "undefined"]
Bool(b) == [t |-> "boolean", b |-> b]
Str(x) == [t |-> "string", s |-> x]

\* JavaScript truthiness and String() of a request-body value
Truthy(v) ==
  CASE v.t = "undefined" -> FALSE
    [] v.t = "boolean" -> v.b
    [] v.t = "string" -> v.s # ""

StringOf(v) ==
  CASE v.t = "undefined" -> "undefined"
    [] v.t = "boolean" -> IF v.b THEN "true" ELSE "false"
    [] v.t = "string" -> v.s

SettingsBody(rev, cost, acc, tax, auto) ==
  [revenueCode |-> rev, costCode |-> cost, accrualCode |-> acc,
   salesTaxName |-> tax, autoApproveBills |-> auto]

\* the settings form posts strings; an empty field is ""
SettingsBodies ==
  { SettingsBody(Undefined, Str("510"), Str("860"), Str(""), Str("false")) }

\* String(req.body.x || s.x)
OrCurrent(v, cur) == IF Truthy(v) THEN StringOf(v) ELSE cur

ApplySettings(s, b) ==
  [revenueCode |-> OrCurrent(b.revenueCode, s.revenueCode),
   costCode |-> OrCurrent(b.costCode, s.costCode),
   accrualCode |-> OrCurrent(b.accrualCode, s.accrualCode),
   salesTaxName |-> OrCurrent(b.salesTaxName, s.salesTaxName),
   autoApproveBills |->
     OrCurrent(b.autoApproveBills, IF s.autoApproveBills THEN "true" ELSE "false") = "true"]

SettingsWrite ==
  /\ settingsWrites < MaxSettingsWrites
  /\ \E b \in SettingsBodies :
       mem' = log([mem EXCEPT !.settings = ApplySettings(@, b)],
                  "ok", [what |-> "settings", body |-> b])
  /\ settingsWrites' = settingsWrites + 1
  /\ UNCHANGED <<XERO_WEBHOOK_KEY, xeroTenants, bills, calls, reqs>>

(* --------------------------- requireTenant ----------------------------- *)
\* what requireTenant does before its first await
requireTenant(m) ==
  IF ~m.tokenInitialised THEN "throw"
  ELSE IF m.tenantId = "" THEN "await"
  ELSE "ok"


(* ---------------------------- POST /campaigns -------------------------- *)
CampaignBody(id, name, ref, sale, cost, tax) ==
  [clientContactId |-> id, clientContactName |-> name, campaignRef |-> ref,
   saleNet |-> sale, expectedCostNet |-> cost, salesTaxName |-> tax]

\* an absent string field is "", an absent amount is <<>>
CampaignBodies ==
  { CampaignBody("C1", "", "R1", <<10000>>, <<8000>>, ""),
    CampaignBody("", "Acme", "R1", <<4000>>, <<3000>>, "20% (VAT ON INCOME)"),
    CampaignBody("C1", "Acme", "R2", <<10000>>, <<8000>>, "GST"),
    CampaignBody("C1", "", "", <<10000>>, <<8000>>, ""),
    CampaignBody("C1", "", "R1", <<>>, <<8000>>, ""),
    CampaignBody("", "Acme", "R1", <<10000>>, <<>>, ""),
    CampaignBody("", "", "R1", <<10000>>, <<8000>>, "") }

\* the 400 condition without its contact check
CampaignInvalidNoContactCheck(b) ==
  \/ b.campaignRef = ""
  \/ b.saleNet = <<>>
  \/ b.expectedCostNet = <<>>

\* the 400 condition
CampaignInvalid(b) ==
  \/ b.campaignRef = ""
  \/ b.saleNet = <<>>
  \/ b.expectedCostNet = <<>>
  \/ (b.clientContactId = "" /\ b.clientContactName = "")

\* the catch block
CampaignCatch(q, m) ==
  [q |-> [q EXCEPT !.pc = "done", !.resp = 500],
   m |-> log(m, "err", [what |-> "Create campaign failed"])]

\* the invoice line and the tax name; up to the call of getTaxRates or
\* createInvoices.  The requireTenant inside findTaxRateByName returns at once:
\* the handler's own requireTenant has returned, and mem.tenantId is never reset.
CampaignAfterContact(q, m) ==
  LET b == q.body
      line == [description |-> "Media campaign", quantity |-> 1,
               unitAmount |-> b.saleNet[1], accountCode |-> m.settings.revenueCode,
               taxType |-> ""]
      taxName == IF b.salesTaxName # "" THEN b.salesTaxName ELSE m.settings.salesTaxName
  IN [q |-> [q EXCEPT !.line = line, !.taxName = taxName,
                      !.pc = IF taxName # "" THEN "getTaxRates" ELSE "createInvoices"],
      m |-> m]

\* validation and contact; up to the call of createContacts
CampaignAfterTenant(q, m) ==
  LET b == q.body IN
  IF CampaignInvalid(b) THEN [q |-> [q EXCEPT !.pc = "done", !.resp = 400], m |-> m]
  ELSE IF b.clientContactId = ""
    THEN [q |-> [q EXCEPT !.campaignRef = b.campaignRef, !.pc = "createContacts"], m |-> m]
    ELSE CampaignAfterContact([q EXCEPT !.campaignRef = b.campaignRef,
                                        !.contactId = b.clientContactId], m)

\* rates.find(r => (r.name || "").toLowerCase() === name.toLowerCase())
findTaxRateByName(name) ==
  LET hits == {k \in 1..Len(TaxRates) : ToLowerCase(TaxRates[k].name) = ToLowerCase(name)}
  IN IF hits = {} THEN [taxType |-> ""]
     ELSE TaxRates[CHOOSE k \in hits : \A j \in hits : k <= j]

\* a Ledger write that replaces the total instead of adding to it
AccrueLedgerOverwrite(m, campaignRef, cost) ==
  [m EXCEPT !.accrualByCampaign = MapSet(@, campaignRef, cost)]

\* mem.accrualByCampaign.set(campaignRef, (get(campaignRef) || 0) + Number(expectedCostNet))
AccrueLedger(m, campaignRef, cost) ==
  [m EXCEPT !.accrualByCampaign = MapSet(@, campaignRef, MapGetOr0(@, campaignRef) + cost)]

\* an accrual journal whose second line has the sign of the first
AccrualLinesSameSign(s, cost) ==
  <<[accountCode |-> s.costCode, lineAmount |-> cost, taxType |-> ""],
    [accountCode |-> s.accrualCode, lineAmount |-> cost, taxType |-> ""]>>

\* the two lines of the accrual journal
AccrualLines(s, cost) ==
  <<[accountCode |-> s.costCode, lineAmount |-> cost, taxType |-> ""],
    [accountCode |-> s.accrualCode, lineAmount |-> -cost, taxType |-> ""]>>

\* createInvoices resolved, with the Ledger incremented before the journal call
CampaignAfterInvoicesAccrueFirst(q, m) ==
  [q |-> [q EXCEPT !.jl = AccrualLines(m.settings, q.body.expectedCostNet[1]),
                   !.pc = "createManualJournals"],
   m |-> AccrueLedger(m, q.body.campaignRef, q.body.expectedCostNet[1])]

\* createInvoices resolved; up to the call of createManualJournals
CampaignAfterInvoices(q, m) ==
  [q |-> [q EXCEPT !.jl = AccrualLines(m.settings, q.body.expectedCostNet[1]),
                   !.pc = "createManualJournals"],
   m |-> m]

\* a continuation that adds the amount to the total the request holds in a
\* local from before its awaits (q.accrued) instead of reading the Ledger now
CampaignAfterJournalsStaleRead(q, m) ==
  LET ref == q.body.campaignRef
      cost == q.body.expectedCostNet[1]
      m1 == [m EXCEPT !.accrualByCampaign = MapSet(@, ref, q.accrued + cost)]
  IN [q |-> [q EXCEPT !.pc = "done", !.resp = 200],
      m |-> log(m1, "ok", [what |-> "accrued", variance |-> cost, ref |-> ref])]

\* createManualJournals resolved: Ledger increment, log and response
CampaignAfterJournals(q, m) ==
  LET ref == q.body.campaignRef
      cost == q.body.expectedCostNet[1]
      m1 == AccrueLedger(m, ref, cost)
  IN [q |-> [q EXCEPT !.pc = "done", !.resp = 200],
      m |-> log(m1, "ok", [what |-> "accrued", variance |-> cost, ref |-> ref])]

CampaignReceive(r) ==
  /\ CanArrive(r)
  /\ \E b \in CampaignBodies :
       LET q == [NoReq EXCEPT !.kind = "campaign", !.body = b, !.pc = "start"]
           t == requireTenant(mem)
           n == CASE t = "throw" -> CampaignCatch(q, mem)
                  [] t = "await" -> [q |-> [q EXCEPT !.pc = "updateTenants"], m |-> mem]
                  [] t = "ok" -> CampaignAfterTenant([q EXCEPT !.tenantId = mem.tenantId], mem)
       IN /\ reqs' = [reqs EXCEPT ![r] = n.q]
          /\ mem' = n.m
  /\ UNCHANGED <<XERO_WEBHOOK_KEY, xeroTenants, bills, calls, settingsWrites>>

CampaignCreateContacts(r) ==
  /\ reqs[r].kind = "campaign" /\ reqs[r].pc = "createContacts"
  /\ \E ok \in BOOLEAN :
       LET q == Did(reqs[r], 0, "createContacts", ok)
              n == IF ok THEN CampaignAfterContact([q EXCEPT !.contactId = "new"], mem)
                         ELSE CampaignCatch(q, mem)
          IN /\ reqs' = [reqs EXCEPT ![r] = n.q]
             /\ mem' = n.m
             /\ calls' = IF ok THEN calls \cup {W(r, q, "createContacts",
                                                    q.body.clientContactName, <<>>, "")}
                               ELSE calls
  /\ UNCHANGED <<XERO_WEBHOOK_KEY, xeroTenants, bills, settingsWrites>>

CampaignGetTaxRates(r) ==
  /\ reqs[r].kind = "campaign" /\ reqs[r].pc = "getTaxRates"
  /\ \E ok \in BOOLEAN :
       LET q == Did(reqs[r], 0, "getTaxRates", ok)
              tax == findTaxRateByName(q.taxName)
              n == IF ok THEN [q |-> [q EXCEPT !.line.taxType = tax.taxType,
                                               !.pc = "createInvoices"],
                               m |-> mem]
                         ELSE CampaignCatch(q, mem)
          IN /\ reqs' = [reqs EXCEPT ![r] = n.q]
             /\ mem' = n.m
  /\ UNCHANGED <<XERO_WEBHOOK_KEY, xeroTenants, bills, calls, settingsWrites>>

CampaignCreateInvoices(r) ==
  /\ reqs[r].kind = "campaign" /\ reqs[r].pc = "createInvoices"
  /\ \E ok \in BOOLEAN :
       LET q == Did(reqs[r], 0, "createInvoices", ok)
              n == IF ok THEN CampaignAfterInvoices(q, mem) ELSE CampaignCatch(q, mem)
          IN /\ reqs' = [reqs EXCEPT ![r] = n.q]
             /\ mem' = n.m
             /\ calls' = IF ok THEN calls \cup {W(r, q, "createInvoices", "ACCREC",
                                                    <<q.line>>, "")}
                               ELSE calls
  /\ UNCHANGED <<XERO_WEBHOOK_KEY, xeroTenants, bills, settingsWrites>>

CampaignCreateManualJournals(r) ==
  /\ reqs[r].kind = "campaign" /\ reqs[r].pc = "createManualJournals"
  /\ \E ok \in BOOLEAN :
       LET q == Did(reqs[r], 0, "createManualJournals", ok)
              n == IF ok THEN CampaignAfterJournals(q, mem) ELSE CampaignCatch(q, mem)
          IN /\ reqs' = [reqs EXCEPT ![r] = n.q]
             /\ mem' = n.m
             /\ calls' = IF ok THEN calls \cup {W(r, q, "createManualJournals",
                                                    "accrual", q.jl, "")}
                               ELSE calls
  /\ UNCHANGED <<XERO_WEBHOOK_KEY, xeroTenants, bills, settingsWrites>>


(* ------------------------ POST /webhooks/xero -------------------------- *)
Event(rt, id) == [resourceType |-> rt, resourceId |-> id]

Raw(id, json, events) == [id |-> id, json |-> json, events |-> events]

\* raw payloads; json = FALSE is a payload JSON.parse rejects, and a payload
\* without an events member has events = <<>> (json.events || [])
RawBodies ==
  { Raw("p0", FALSE, <<>>),
    Raw("p1", TRUE, <<Event("INVOICE", "b1")>>),
    Raw("p2", TRUE, <<Event("INVOICE", "b2"), Event("INVOICE", "b6")>>),
    Raw("p3", TRUE, <<Event("CONTACT", "c9"), Event("INVOICE", "b9"), Event("INVOICE", "b3")>>),
    Raw("p4", TRUE, <<Event("INVOICE", "b4"), Event("INVOICE", "b5")>>),
    Raw("p5", TRUE, <<>>) }

\* crypto.createHmac("sha256", key).update(rawBody).digest("base64")
HmacSha256Base64(key, rawBody) == [len |-> DigestLen, mac |-> <<key, rawBody.id>>]

NoSignature == [len |-> 0, mac |-> <<>>]
ShortSignature == [len |-> 7, mac |-> <<"garbage">>]

Delivery(sig, raw) == [signature |-> sig, rawBody |-> raw]

\* what arrives: payloads signed by the provider, and forgeries of payload p1
Deliveries ==
  { Delivery(HmacSha256Base64("k", b), b) : b \in RawBodies } \cup
  { Delivery(s, Raw("p1", TRUE, <<Event("INVOICE", "b1")>>)) :
      s \in { NoSignature, ShortSignature,
              HmacSha256Base64("k", Raw("p5", TRUE, <<>>)),
              HmacSha256Base64("guess", Raw("p1", TRUE, <<Event("INVOICE", "b1")>>)) } }

\* crypto.timingSafeEqual: throws on buffers of different length
timingSafeEqual(a, b) ==
  IF a.len # b.len THEN "throw" ELSE IF a = b THEN "true" ELSE "false"

\* a verifier that takes every comparison that does not throw for a match
verifyAnythingOfDigestLength(signature, rawBody) ==
  IF XERO_WEBHOOK_KEY = "" THEN FALSE
  ELSE timingSafeEqual(signature, HmacSha256Base64(XERO_WEBHOOK_KEY, rawBody)) # "throw"

\* a verifier without the check that the key is set
verifyWithoutKeyCheck(signature, rawBody) ==
  timingSafeEqual(signature, HmacSha256Base64(XERO_WEBHOOK_KEY, rawBody)) = "true"

\* the try block returns what timingSafeEqual returns, the catch block false
verifyXeroWebhookSignature(signature, rawBody) ==
  IF XERO_WEBHOOK_KEY = "" THEN FALSE
  ELSE timingSafeEqual(signature, HmacSha256Base64(XERO_WEBHOOK_KEY, rawBody)) = "true"

\* a catch block that acknowledges the delivery all the same
WebhookCatchAcknowledging(q, m) ==
  [q |-> [q EXCEPT !.pc = "done", !.resp = 200],
   m |-> log(m, "err", [what |-> "Webhook error"])]

\* the catch block
WebhookCatch(q, m) ==
  [q |-> [q EXCEPT !.pc = "done", !.resp = 500],
   m |-> log(m, "err", [what |-> "Webhook error"])]

\* if (ev.resourceType !== "INVOICE") continue
EventIsInvoice(ev) == ev.resourceType = "INVOICE"

\* index of the first event from i on that is fetched, Len + 1 when there is none
RECURSIVE NextFetched(_, _)
NextFetched(events, i) ==
  IF i > Len(events) THEN i
  ELSE IF EventIsInvoice(events[i]) THEN i
  ELSE NextFetched(events, i + 1)

\* the for loop from event i on; up to the call of getInvoice or the 200 response
WebhookLoop(q, m, i) ==
  LET events == q.body.rawBody.events
      j == NextFetched(events, i)
  IN [q |-> IF j > Len(events)
              THEN [q EXCEPT !.i = j, !.pc = "done", !.resp = 200]
              ELSE [q EXCEPT !.i = j, !.pc = "getInvoice"],
      m |-> m]

\* the filter without its reference check
BillPassesFilterAnyReference(inv) ==
  /\ inv.type = "ACCPAY"
  /\ inv.status \in {"DRAFT", "SUBMITTED"}

\* the filter without its status check
BillPassesFilterAnyStatus(inv) ==
  /\ inv.type = "ACCPAY"
  /\ inv.reference # ""

\* the type, status and reference checks on the fetched document
BillPassesFilter(inv) ==
  /\ inv.type = "ACCPAY"
  /\ inv.status \in {"DRAFT", "SUBMITTED"}
  /\ inv.reference # ""

\* newLines that send every line without its tax identifier
RecodeLinesDroppingTax(lineItems, accrualCode) ==
  [k \in 1..Len(lineItems) |->
     [description |-> lineItems[k].description, quantity |-> lineItems[k].quantity,
      unitAmount |-> lineItems[k].unitAmount, accountCode |-> accrualCode,
      taxType |-> ""]]

\* newLines
RecodeLines(lineItems, accrualCode) ==
  [k \in 1..Len(lineItems) |->
     [description |-> lineItems[k].description, quantity |-> lineItems[k].quantity,
      unitAmount |-> lineItems[k].unitAmount, accountCode |-> accrualCode,
      taxType |-> lineItems[k].taxType]]

\* getInvoice resolved; up to the call of updateInvoice with the new lines
WebhookAfterGet(q, m, found, doc) ==
  IF ~found THEN WebhookLoop(q, m, q.i + 1)
  ELSE IF ~BillPassesFilter(doc) THEN WebhookLoop([q EXCEPT !.inv = doc], m, q.i + 1)
  ELSE [q |-> [q EXCEPT !.inv = doc, !.campaignRef = doc.reference,
                        !.newLines = RecodeLines(doc.lineItems, m.settings.accrualCode),
                        !.pc = "updateInvoiceLines"],
        m |-> m]

\* Number(l.unitAmount || 0) * Number(l.quantity || 1), summed
RECURSIVE NetBill(_)
NetBill(lines) ==
  IF lines = <<>> THEN 0
  ELSE Head(lines).unitAmount * (IF Head(lines).quantity = 0 THEN 1 ELSE Head(lines).quantity)
       + NetBill(Tail(lines))

\* jl with the two branches exchanged
VarianceLinesReversed(variance, s) ==
  IF variance < 0
    THEN <<[accountCode |-> s.costCode, lineAmount |-> Abs(variance), taxType |-> ""],
           [accountCode |-> s.accrualCode, lineAmount |-> -Abs(variance), taxType |-> ""]>>
    ELSE <<[accountCode |-> s.accrualCode, lineAmount |-> Abs(variance), taxType |-> ""],
           [accountCode |-> s.costCode, lineAmount |-> -Abs(variance), taxType |-> ""]>>

\* jl
VarianceLines(variance, s) ==
  IF variance > 0
    THEN <<[accountCode |-> s.costCode, lineAmount |-> Abs(variance), taxType |-> ""],
           [accountCode |-> s.accrualCode, lineAmount |-> -Abs(variance), taxType |-> ""]>>
    ELSE <<[accountCode |-> s.accrualCode, lineAmount |-> Abs(variance), taxType |-> ""],
           [accountCode |-> s.costCode, lineAmount |-> -Abs(variance), taxType |-> ""]>>

\* an iteration end that also takes the bill off the accrued total
WebhookAfterEventConsuming(q, m) ==
  WebhookLoop(q, log([m EXCEPT !.accrualByCampaign =
                                 MapSet(@, q.campaignRef,
                                        MapGetOr0(@, q.campaignRef) - q.netBill)],
                     "ok", [what |-> "recoded"]),
              q.i + 1)

\* the log line that ends an iteration, then the next iteration
WebhookAfterEvent(q, m) ==
  WebhookLoop(q, log(m, "ok", [what |-> "recoded", variance |-> q.variance,
                               ref |-> q.campaignRef]),
              q.i + 1)

\* the accrued total the variance is taken against
Accrued(m, campaignRef) == MapGetOr0(m.accrualByCampaign, campaignRef)

\* netBill, accrued, variance; up to the call of createManualJournals
WebhookVariance(q, m) ==
  LET netBill == NetBill(q.newLines)
      accrued == Accrued(m, q.campaignRef)
      variance == ToFixed2(netBill - accrued)
      q1 == [q EXCEPT !.netBill = netBill, !.accrued = accrued, !.variance = variance,
                      !.outcomes = Append(@, [ev |-> q.i, netBill |-> netBill,
                                              accrued |-> accrued, variance |-> variance,
                                              costCode |-> m.settings.costCode,
                                              accrualCode |-> m.settings.accrualCode])]
  IN IF variance # 0
       THEN [q |-> [q1 EXCEPT !.jl = VarianceLines(variance, m.settings),
                              !.pc = "createManualJournals"],
             m |-> m]
       ELSE WebhookAfterEvent(q1, m)

\* a recode continuation that approves whatever the setting says
WebhookAfterRecodeAlwaysApprove(q, m) ==
  [q |-> [q EXCEPT !.approve = TRUE, !.pc = "updateInvoiceStatus"], m |-> m]

\* the recode resolved; up to the call of updateInvoice with the status
WebhookAfterRecode(q, m) ==
  IF m.settings.autoApproveBills
    THEN [q |-> [q EXCEPT !.approve = TRUE, !.pc = "updateInvoiceStatus"], m |-> m]
    ELSE WebhookVariance([q EXCEPT !.approve = FALSE], m)

WebhookReceive(r) ==
  /\ CanArrive(r)
  /\ \E d \in Deliveries :
       LET q == [NoReq EXCEPT !.kind = "webhook", !.body = d, !.pc = "start"]
           t == requireTenant(mem)
           n == IF ~verifyXeroWebhookSignature(d.signature, d.rawBody)
                  THEN [q |-> [q EXCEPT !.pc = "done", !.resp = 401], m |-> mem]
                ELSE IF ~d.rawBody.json THEN WebhookCatch(q, mem)
                ELSE CASE t = "throw" -> WebhookCatch(q, mem)
                       [] t = "await" -> [q |-> [q EXCEPT !.pc = "updateTenants"], m |-> mem]
                       [] t = "ok" -> WebhookLoop([q EXCEPT !.tenantId = mem.tenantId], mem, 1)
       IN /\ reqs' = [reqs EXCEPT ![r] = n.q]
          /\ mem' = n.m
  /\ UNCHANGED <<XERO_WEBHOOK_KEY, xeroTenants, bills, calls, settingsWrites>>

\* requireTenant resumes after xero.updateTenants(), in either handler
UpdateTenants(r) ==
  /\ reqs[r].pc = "updateTenants"
  /\ \E ok \in BOOLEAN :
       LET q0 == Did(reqs[r], 0, "updateTenants", ok)
              m1 == IF ok THEN [mem EXCEPT !.tenantId = IF xeroTenants = <<>> THEN ""
                                                         ELSE xeroTenants[1]]
                          ELSE mem
              q == IF ok THEN [q0 EXCEPT !.tenantId = m1.tenantId] ELSE q0
              n == IF q.kind = "campaign"
                     THEN IF ok /\ m1.tenantId # "" THEN CampaignAfterTenant(q, m1)
                          ELSE CampaignCatch(q, m1)
                     ELSE IF ok /\ m1.tenantId # "" THEN WebhookLoop(q, m1, 1)
                          ELSE WebhookCatch(q, m1)
          IN /\ reqs' = [reqs EXCEPT ![r] = n.q]
             /\ mem' = n.m
  /\ UNCHANGED <<XERO_WEBHOOK_KEY, xeroTenants, bills, calls, settingsWrites>>

WebhookGetInvoice(r) ==
  /\ reqs[r].kind = "webhook" /\ reqs[r].pc = "getInvoice"
  /\ \E ok \in BOOLEAN :
       LET q == Did(reqs[r], reqs[r].i, "getInvoice", ok)
              id == q.body.rawBody.events[q.i].resourceId
              found == id \in DOMAIN bills
              n == IF ok THEN WebhookAfterGet(q, mem, found, IF found THEN bills[id] ELSE NoDoc)
                         ELSE WebhookCatch(q, mem)
          IN /\ reqs' = [reqs EXCEPT ![r] = n.q]
             /\ mem' = n.m
  /\ UNCHANGED <<XERO_WEBHOOK_KEY, xeroTenants, bills, calls, settingsWrites>>

WebhookUpdateInvoiceLines(r) ==
  /\ reqs[r].kind = "webhook" /\ reqs[r].pc = "updateInvoiceLines"
  /\ \E ok \in BOOLEAN :
       LET q == Did(reqs[r], reqs[r].i, "updateInvoiceLines", ok)
              id == q.body.rawBody.events[q.i].resourceId
              n == IF ok THEN WebhookAfterRecode(q, mem) ELSE WebhookCatch(q, mem)
          IN /\ reqs' = [reqs EXCEPT ![r] = n.q]
             /\ mem' = n.m
             /\ bills' = IF ok THEN [bills EXCEPT ![id].lineItems = q.newLines] ELSE bills
             /\ calls' = IF ok THEN calls \cup {W(r, q, "updateInvoiceLines", id,
                                                    q.newLines, bills[id].status)}
                               ELSE calls
  /\ UNCHANGED <<XERO_WEBHOOK_KEY, xeroTenants, settingsWrites>>

WebhookUpdateInvoiceStatus(r) ==
  /\ reqs[r].kind = "webhook" /\ reqs[r].pc = "updateInvoiceStatus"
  /\ \E ok \in BOOLEAN :
       LET q == Did(reqs[r], reqs[r].i, "updateInvoiceStatus", ok)
              id == q.body.rawBody.events[q.i].resourceId
              n == IF ok THEN WebhookVariance(q, mem) ELSE WebhookCatch(q, mem)
          IN /\ reqs' = [reqs EXCEPT ![r] = n.q]
             /\ mem' = n.m
             /\ bills' = IF ok THEN [bills EXCEPT ![id].status = "AUTHORISED"] ELSE bills
             /\ calls' = IF ok THEN calls \cup {W(r, q, "updateInvoiceStatus", id,
                                                    <<>>, bills[id].status)}
                               ELSE calls
  /\ UNCHANGED <<XERO_WEBHOOK_KEY, xeroTenants, settingsWrites>>

WebhookCreateManualJournals(r) ==
  /\ reqs[r].kind = "webhook" /\ reqs[r].pc = "createManualJournals"
  /\ \E ok \in BOOLEAN :
       LET q == Did(reqs[r], reqs[r].i, "createManualJournals", ok)
              id == q.body.rawBody.events[q.i].resourceId
              n == IF ok THEN WebhookAfterEvent(q, mem) ELSE WebhookCatch(q, mem)
          IN /\ reqs' = [reqs EXCEPT ![r] = n.q]
             /\ mem' = n.m
             /\ calls' = IF ok THEN calls \cup {W(r, q, "createManualJournals", id,
                                                    q.jl, bills[id].status)}
                               ELSE calls
  /\ UNCHANGED <<XERO_WEBHOOK_KEY, xeroTenants, bills, settingsWrites>>

(* --------------------------- specification ----------------------------- *)
Next ==
  \/ Callback
  \/ SettingsWrite
  \/ \E r \in Reqs : CampaignReceive(r)
  \/ \E r \in Reqs : UpdateTenants(r)
  \/ \E r \in Reqs : CampaignCreateContacts(r)
  \/ \E r \in Reqs : CampaignGetTaxRates(r)
  \/ \E r \in Reqs : CampaignCreateInvoices(r)
  \/ \E r \in Reqs : CampaignCreateManualJournals(r)
  \/ \E r \in Reqs : WebhookReceive(r)
  \/ \E r \in Reqs : WebhookGetInvoice(r)
  \/ \E r \in Reqs : WebhookUpdateInvoiceLines(r)
  \/ \E r \in Reqs : WebhookUpdateInvoiceStatus(r)
  \/ \E r \in Reqs : WebhookCreateManualJournals(r)

Spec == Init /\ [][Next]_vars

(* ---------------- verifyXeroWebhookSignature on its own ---------------- *)
\* the function applied to arguments of every shape, under a key that is set
\* or not: each request slot holds one call and the value it returned
SameLengthSignature == [len |-> DigestLen, mac |-> <<"garbage">>]

VerifyPayloads == {b \in RawBodies : b.id \in {"p1", "p5"}}

VerifySignatures ==
  {NoSignature, ShortSignature, SameLengthSignature} \cup
  {HmacSha256Base64(key, b) : key \in {"", "k", "guess"}, b \in VerifyPayloads}

VerifyCall(sig, raw) ==
  [kind |-> "verify", pc |-> "called", body |-> Delivery(sig, raw), returned |-> FALSE]

VerifyInit ==
  /\ mem = InitialMem(FALSE)
  /\ XERO_WEBHOOK_KEY \in {"", "k"}
  /\ xeroTenants = <<>>
  /\ bills = InitialBills
  /\ calls = {}
  /\ reqs \in [Reqs -> {VerifyCall(sig, raw) : sig \in VerifySignatures, raw \in VerifyPayloads}]
  /\ settingsWrites = 0

VerifyApply(r) ==
  /\ reqs[r].kind = "verify" /\ reqs[r].pc = "called"
  /\ reqs' = [reqs EXCEPT ![r].pc = "returned",
                          ![r].returned = verifyXeroWebhookSignature(reqs[r].body.signature,
                                                                     reqs[r].body.rawBody)]
  /\ UNCHANGED <<mem, XERO_WEBHOOK_KEY, xeroTenants, bills, calls, settingsWrites>>

VerifyNext == \E r \in Reqs : VerifyApply(r)

VerifySpec == VerifyInit /\ [][VerifyNext]_vars

(* ---------------------- /api/settings on its own ----------------------- *)
\* request bodies of every shape the JSON parser can hand to the handler:
\* a field absent, a string (empty or not), and for autoApproveBills a
\* boolean as well
AnySettingsBodies ==
  { SettingsBody(Undefined, cost, acc, Undefined, auto) :
      cost \in {Undefined, Str("510"), Str("")},
      acc \in {Undefined, Str("860")},
      auto \in {Undefined, Bool(TRUE), Bool(FALSE), Str("true"), Str("false")} }

SettingsInit ==
  /\ \E auto \in BOOLEAN : mem = InitialMem(auto)
  /\ XERO_WEBHOOK_KEY = ""
  /\ xeroTenants = <<>>
  /\ bills = InitialBills
  /\ calls = {}
  /\ reqs = [r \in Reqs |-> NoReq]
  /\ settingsWrites = 0

\* POST /api/settings, the request kept with the body it carried
SettingsPost(r) ==
  /\ CanArrive(r)
  /\ \E b \in AnySettingsBodies :
       /\ mem' = log([mem EXCEPT !.settings = ApplySettings(@, b)],
                     "ok", [what |-> "settings", body |-> b])
       /\ reqs' = [reqs EXCEPT ![r] = [NoReq EXCEPT !.kind = "settings", !.body = b,
                                                    !.resp = 200]]
  /\ settingsWrites' = settingsWrites + 1
  /\ UNCHANGED <<XERO_WEBHOOK_KEY, xeroTenants, bills, calls>>

SettingsNext == \E r \in Reqs : SettingsPost(r)

SettingsSpec == SettingsInit /\ [][SettingsNext]_vars

(* ------------------- deliveries one at a time, fairly ------------------ *)
\* The provider sends a delivery, waits for the answer and sends the next one
\* (a redelivery, when the answer was not 200) only then; every call a request
\* awaits settles, so every request that is waiting takes its next step.
NoDeliveryInFlight == \A r \in Reqs : reqs[r].kind = "webhook" => reqs[r].pc = "done"

WebhookReceiveInTurn(r) == NoDeliveryInFlight /\ WebhookReceive(r)

\* the step of request r that follows the settling of the call it awaits
Resume(r) ==
  \/ UpdateTenants(r)
  \/ CampaignCreateContacts(r)
  \/ CampaignGetTaxRates(r)
  \/ CampaignCreateInvoices(r)
  \/ CampaignCreateManualJournals(r)
  \/ WebhookGetInvoice(r)
  \/ WebhookUpdateInvoiceLines(r)
  \/ WebhookUpdateInvoiceStatus(r)
  \/ WebhookCreateManualJournals(r)

LiveNext ==
  \/ Callback
  \/ SettingsWrite
  \/ \E r \in Reqs : CampaignReceive(r)
  \/ \E r \in Reqs : WebhookReceiveInTurn(r)
  \/ \E r \in Reqs : Resume(r)

LiveSpec == Init /\ [][LiveNext]_vars /\ \A r \in Reqs : WF_vars(Resume(r))

(* -------------- the accrual journal call in its two halves ------------- *)
\* await createManualJournals in POST /campaigns, taken apart: the provider
\* posts the journal (or rejects the call), and the handler resumes when the
\* answer has come back; other requests may take steps in between.
CampaignJournalPosted(r) ==
  /\ reqs[r].kind = "campaign" /\ reqs[r].pc = "createManualJournals"
  /\ \E ok \in BOOLEAN :
       LET q == reqs[r]
           n == IF ok THEN [q |-> [q EXCEPT !.pc = "journalPosted"], m |-> mem]
                      ELSE CampaignCatch(Did(q, 0, "createManualJournals", FALSE), mem)
       IN /\ reqs' = [reqs EXCEPT ![r] = n.q]
          /\ mem' = n.m
          /\ calls' = IF ok THEN calls \cup {W(r, q, "createManualJournals",
                                                 "accrual", q.jl, "")}
                            ELSE calls
  /\ UNCHANGED <<XERO_WEBHOOK_KEY, xeroTenants, bills, settingsWrites>>

CampaignJournalResolved(r) ==
  /\ reqs[r].kind = "campaign" /\ reqs[r].pc = "journalPosted"
  /\ LET n == CampaignAfterJournals(Did(reqs[r], 0, "createManualJournals", TRUE), mem)
     IN /\ reqs' = [reqs EXCEPT ![r] = n.q]
        /\ mem' = n.m
  /\ UNCHANGED <<XERO_WEBHOOK_KEY, xeroTenants, bills, calls, settingsWrites>>

PostedNext ==
  \/ Callback
  \/ SettingsWrite
  \/ \E r \in Reqs : CampaignReceive(r)
  \/ \E r \in Reqs : UpdateTenants(r)
  \/ \E r \in Reqs : CampaignCreateContacts(r)
  \/ \E r \in Reqs : CampaignGetTaxRates(r)
  \/ \E r \in Reqs : CampaignCreateInvoices(r)
  \/ \E r \in Reqs : CampaignJournalPosted(r)
  \/ \E r \in Reqs : CampaignJournalResolved(r)
  \/ \E r \in Reqs : WebhookReceive(r)
  \/ \E r \in Reqs : WebhookGetInvoice(r)
  \/ \E r \in Reqs : WebhookUpdateInvoiceLines(r)
  \/ \E r \in Reqs : WebhookUpdateInvoiceStatus(r)
  \/ \E r \in Reqs : WebhookCreateManualJournals(r)

PostedSpec == Init /\ [][PostedNext]_vars


(* ------------------------------ properties ----------------------------- *)
Webhooks == {r \in Reqs : reqs[r].kind = "webhook"}
Campaigns == {r \in Reqs : reqs[r].kind = "campaign"}
EventsOf(r) == reqs[r].body.rawBody.events
Awaited(r) == {reqs[r].trace[k] : k \in 1..Len(reqs[r].trace)}
Outcomes(r) == {reqs[r].outcomes[k] : k \in 1..Len(reqs[r].outcomes)}
WritesOf(r, ev) == {w \in calls : w.req = r /\ w.ev = ev}
Editable(status) == status \in {"DRAFT", "SUBMITTED"}

\* the delivery's signature is the keyed digest of its raw payload
Authentic(d) ==
  /\ XERO_WEBHOOK_KEY # ""
  /\ d.signature = HmacSha256Base64(XERO_WEBHOOK_KEY, d.rawBody)

\* C1: every write the Reconciler makes for a bill event belongs to an event
\* of resource type INVOICE whose fetched document is a purchase (ACCPAY) in
\* status DRAFT or SUBMITTED with a non-empty reference; an event that fails
\* one of these has no line update, no status update and no journal.
C1_IgnoredEventsMutateNothing ==
  \A w \in calls : w.req \in Webhooks =>
    LET ev == EventsOf(w.req)[w.ev] IN
    /\ ev.resourceType = "INVOICE"
    /\ T(w.ev, "getInvoice", TRUE) \in Awaited(w.req)
    /\ w.target = ev.resourceId
    /\ w.inv.type = "ACCPAY" /\ bills[w.target].type = "ACCPAY"
    /\ Editable(w.inv.status)
    /\ w.inv.reference # "" /\ bills[w.target].reference # ""

\* two acknowledged deliveries whose events were ignored for each of the four
\* reasons, with nothing written
C1_Witness ==
  \E r1, r2 \in Webhooks :
    /\ reqs[r1].resp = 200 /\ reqs[r2].resp = 200
    /\ \E e \in 1..Len(EventsOf(r1)) : EventsOf(r1)[e].resourceType # "INVOICE"
    /\ \E e \in 1..Len(EventsOf(r1)) :
         /\ T(e, "getInvoice", TRUE) \in Awaited(r1)
         /\ EventsOf(r1)[e].resourceId \in DOMAIN bills
         /\ bills[EventsOf(r1)[e].resourceId].type # "ACCPAY"
    /\ \E e \in 1..Len(EventsOf(r2)) :
         /\ T(e, "getInvoice", TRUE) \in Awaited(r2)
         /\ EventsOf(r2)[e].resourceId \in DOMAIN bills
         /\ ~Editable(bills[EventsOf(r2)[e].resourceId].status)
    /\ \E e \in 1..Len(EventsOf(r2)) :
         /\ T(e, "getInvoice", TRUE) \in Awaited(r2)
         /\ EventsOf(r2)[e].resourceId \in DOMAIN bills
         /\ bills[EventsOf(r2)[e].resourceId].reference = ""
    /\ \A w \in calls : w.req \notin {r1, r2}

\* C2: a delivery whose signature is not the digest of its raw payload under
\* the configured key is answered 401 in the step that receives it, awaits no
\* API call, and leaves mem (Ledger, settings, log), the provider's documents
\* and the provider's writes unchanged.
C2_BadSignatureRejected ==
  [][\A r \in Reqs :
       (reqs[r].kind = "none" /\ reqs'[r].kind = "webhook" /\ ~Authentic(reqs'[r].body)) =>
         /\ reqs'[r].pc = "done" /\ reqs'[r].resp = 401
         /\ reqs'[r].trace = <<>>
         /\ UNCHANGED <<mem, xeroTenants, bills, calls>>]_vars

\* a payload signed for other bytes was answered 401 although the key is set
\* and a tenant is connected
C2_Witness ==
  \E r \in Webhooks :
    /\ XERO_WEBHOOK_KEY # "" /\ mem.tenantId # ""
    /\ reqs[r].body.signature.len = DigestLen
    /\ \E b \in RawBodies : b # reqs[r].body.rawBody
                            /\ reqs[r].body.signature = HmacSha256Base64(XERO_WEBHOOK_KEY, b)
    /\ reqs[r].resp = 401

\* the two journal lines the sign of a variance asks for
ExpectedJournal(o) ==
  IF o.variance > 0
    THEN <<[accountCode |-> o.costCode, lineAmount |-> Abs(o.variance), taxType |-> ""],
           [accountCode |-> o.accrualCode, lineAmount |-> -Abs(o.variance), taxType |-> ""]>>
    ELSE <<[accountCode |-> o.accrualCode, lineAmount |-> Abs(o.variance), taxType |-> ""],
           [accountCode |-> o.costCode, lineAmount |-> -Abs(o.variance), taxType |-> ""]>>

JournalCalls(r, ev) == {k \in 1..Len(reqs[r].trace) :
                          reqs[r].trace[k].ev = ev /\ reqs[r].trace[k].op = "createManualJournals"}
JournalInFlight(r, ev) == reqs[r].pc = "createManualJournals" /\ reqs[r].i = ev
Journals(r, ev) == {w \in WritesOf(r, ev) : w.op = "createManualJournals"}

\* C3: for every bill event whose variance the Reconciler has computed, the
\* variance is netBill - accrued to two decimals, and: with variance 0 it
\* calls createManualJournals not at all; with variance > 0 it
\* calls it exactly once, debiting the cost account and crediting the accrual
\* account by abs(variance); with variance < 0 exactly once, debiting the
\* accrual account and crediting the cost account by abs(variance); and the
\* provider holds that journal exactly when the call succeeded.
C3_VariancePostingBySign ==
  \A r \in Webhooks : \A o \in Outcomes(r) :
    /\ o.variance = ToFixed2(o.netBill - o.accrued)
    /\ o.variance = 0 =>
         /\ JournalCalls(r, o.ev) = {} /\ ~JournalInFlight(r, o.ev)
         /\ Journals(r, o.ev) = {}
    /\ o.variance # 0 =>
         /\ Cardinality(JournalCalls(r, o.ev)) = IF JournalInFlight(r, o.ev) THEN 0 ELSE 1
         /\ JournalInFlight(r, o.ev) => reqs[r].jl = ExpectedJournal(o)
         /\ Cardinality(Journals(r, o.ev)) =
              IF T(o.ev, "createManualJournals", TRUE) \in Awaited(r) THEN 1 ELSE 0
         /\ \A w \in Journals(r, o.ev) : w.lines = ExpectedJournal(o)

\* one acknowledged delivery with a release journal for a negative variance
\* and no journal for a variance of zero, and a bill journaled for a positive one
C3_Witness ==
  \E r \in Webhooks :
    /\ reqs[r].resp = 200
    /\ \E o \in Outcomes(r) : o.variance < 0 /\ Journals(r, o.ev) # {}
    /\ \E o \in Outcomes(r) : o.variance = 0 /\ o.netBill # 0 /\ Journals(r, o.ev) = {}

VarianceJournalsOf(b) ==
  {w \in calls : w.req \in Webhooks /\ w.op = "createManualJournals" /\ w.target = b}

\* C4: at most one variance journal is ever posted for a bill.
C4_AtMostOneVarianceJournalPerBill ==
  \A b \in DOMAIN bills : Cardinality(VarianceJournalsOf(b)) <= 1

\* C5: a delivery that arrives after a bill was set to AUTHORISED writes
\* nothing for that bill: no line update, no status update, no journal.
C5_RedeliveryAfterFinalIsNoOp ==
  \A u \in calls : u.op = "updateInvoiceStatus" =>
    \A w \in calls : (w.req \in Webhooks /\ w.target = u.target) => w.req <= u.started

\* the bill was auto-approved by one delivery; a later delivery fetched it,
\* wrote nothing and was acknowledged
C5_Witness ==
  \E u \in calls : \E r \in Webhooks :
    /\ u.op = "updateInvoiceStatus"
    /\ r > u.started
    /\ reqs[r].resp = 200
    /\ \E e \in 1..Len(EventsOf(r)) :
         /\ EventsOf(r)[e].resourceId = u.target
         /\ T(e, "getInvoice", TRUE) \in Awaited(r)
    /\ \A w \in calls : w.req # r


Refs == {"R1", "R2"}

\* sum of expectedCostNet over the create-campaign requests in S
RECURSIVE CostSum(_)
CostSum(S) ==
  IF S = {} THEN 0
  ELSE LET r == CHOOSE x \in S : TRUE
       IN reqs[r].body.expectedCostNet[1] + CostSum(S \ {r})

Submitted(ref) ==
  {r \in Campaigns : reqs[r].body.campaignRef = ref /\ reqs[r].body.expectedCostNet # <<>>}

Succeeded(ref) == {r \in Submitted(ref) : reqs[r].resp = 200}

\* C6 as stated: the accrued total of a reference is the sum of expectedCostNet
\* over every create-campaign request submitted for it.
C6_LedgerIsSumOfSubmitted ==
  \A ref \in Refs : Accrued(mem, ref) = CostSum(Submitted(ref))

\* C6, amended: the accrued total of a reference is the sum of expectedCostNet
\* over the create-campaign requests for it that were answered 200; a
\* reference no such request named has no Ledger entry.
C6_LedgerIsSumOfSucceeded ==
  /\ \A ref \in Refs : Accrued(mem, ref) = CostSum(Succeeded(ref))
  /\ DOMAIN mem.accrualByCampaign = {ref \in Refs : Succeeded(ref) # {}}

\* two campaigns for one reference succeeded and one total holds both amounts
C6_Witness ==
  \E r1, r2 \in Succeeded("R1") :
    /\ r1 # r2
    /\ reqs[r1].body.expectedCostNet # reqs[r2].body.expectedCostNet
    /\ mem.accrualByCampaign["R1"] =
         reqs[r1].body.expectedCostNet[1] + reqs[r2].body.expectedCostNet[1]

\* C7: no step of a webhook delivery changes accrualByCampaign, and the
\* accrued amount a delivery takes a bill's variance against is the whole
\* total accrued for the bill's reference by the campaigns that succeeded,
\* whatever other bills of that reference were reconciled before.
C7_WebhookNeverWritesLedger ==
  [][\A r \in Reqs :
       (reqs'[r].kind = "webhook" /\ reqs'[r] # reqs[r]) =>
         /\ mem'.accrualByCampaign = mem.accrualByCampaign
         /\ Len(reqs'[r].outcomes) > Len(reqs[r].outcomes) =>
              LET o == reqs'[r].outcomes[Len(reqs'[r].outcomes)]
              IN /\ o.accrued = CostSum(Succeeded(reqs'[r].campaignRef))
                 /\ o.variance = ToFixed2(o.netBill - o.accrued)]_vars

\* one delivery reconciled two bills of one reference, each against the same
\* non-zero accrued total, which the Ledger still holds
C7_Witness ==
  \E r \in Webhooks : \E o1, o2 \in Outcomes(r) :
    /\ reqs[r].resp = 200
    /\ o1.ev # o2.ev
    /\ o1.accrued = 8000 /\ o2.accrued = 8000
    /\ Journals(r, o1.ev) # {}
    /\ mem.accrualByCampaign["R1"] = 8000

\* C8: in a delivery with an authentic signature, when an API call fails
\* during one event, every later invoice event of the batch is still fetched.
C8_LaterEventsSurviveFailure ==
  \A r \in Webhooks :
    (reqs[r].pc = "done" /\ Authentic(reqs[r].body)) =>
      \A t \in Awaited(r) : (~t.ok /\ t.ev > 0) =>
        \A e \in (t.ev + 1)..Len(EventsOf(r)) :
          EventsOf(r)[e].resourceType = "INVOICE" =>
            \E t2 \in Awaited(r) : t2.ev = e /\ t2.op = "getInvoice"

\* the request body lacks a required field
MissingRequired(b) ==
  \/ b.campaignRef = "" \/ b.saleNet = <<>> \/ b.expectedCostNet = <<>>
  \/ (b.clientContactId = "" /\ b.clientContactName = "")

Rank(op) ==
  CASE op = "updateTenants" -> 0
    [] op = "createContacts" -> 1
    [] op = "getTaxRates" -> 2
    [] op = "createInvoices" -> 3
    [] op = "createManualJournals" -> 4

\* what a create-campaign request has awaited so far is in handler order, a
\* failed call is the last one and ends the request with 500, and every write
\* that succeeded is still held by the provider
C10_Order ==
  \A r \in Campaigns :
    LET tr == reqs[r].trace IN
    /\ \A j, k \in 1..Len(tr) : j < k => (Rank(tr[j].op) < Rank(tr[k].op) /\ tr[j].ok)
    /\ \A k \in 1..Len(tr) :
         ~tr[k].ok => (k = Len(tr) /\ reqs[r].pc = "done" /\ reqs[r].resp = 500)
    /\ \A k \in 1..Len(tr) :
         (tr[k].ok /\ tr[k].op \in {"createContacts", "createInvoices", "createManualJournals"})
           => \E w \in calls : w.req = r /\ w.op = tr[k].op
    /\ \A w \in calls : w.req = r => T(0, w.op, TRUE) \in Awaited(r)
    /\ reqs[r].resp = 200 =>
         /\ T(0, "createInvoices", TRUE) \in Awaited(r)
         /\ T(0, "createManualJournals", TRUE) \in Awaited(r)
         /\ (reqs[r].body.clientContactId = "" <=> T(0, "createContacts", TRUE) \in Awaited(r))

\* C10: create-campaign awaits its calls in the order contact creation, tax
\* lookup, invoice creation, accrual journal creation; a call that fails is the
\* request's last and the request is answered 500; the Ledger changes only in
\* the step in which a request's accrual journal call succeeds, by that
\* request's expectedCostNet; writes that succeeded stay with the provider.
C10_OrderedAbortNoRollback ==
  /\ []C10_Order
  /\ [][/\ mem'.accrualByCampaign # mem.accrualByCampaign =>
             \E r \in Reqs :
               /\ reqs[r].kind = "campaign" /\ reqs[r].pc = "createManualJournals"
               /\ reqs'[r].trace = Append(reqs[r].trace, T(0, "createManualJournals", TRUE))
               /\ reqs'[r].resp = 200
               /\ Accrued(mem', reqs[r].body.campaignRef) =
                    Accrued(mem, reqs[r].body.campaignRef) + reqs[r].body.expectedCostNet[1]
        /\ calls \subseteq calls']_vars

\* one request created contact, looked up tax, created invoice and journal and
\* accrued; another created its invoice, failed on the journal, was answered
\* 500, left the invoice with the provider and the Ledger without its amount
C10_Witness ==
  \E r1, r2 \in Campaigns :
    /\ reqs[r1].resp = 200
    /\ [k \in 1..Len(reqs[r1].trace) |-> reqs[r1].trace[k].op] =
         <<"createContacts", "getTaxRates", "createInvoices", "createManualJournals">>
    /\ reqs[r2].resp = 500
    /\ T(0, "createInvoices", TRUE) \in Awaited(r2)
    /\ T(0, "createManualJournals", FALSE) \in Awaited(r2)
    /\ \E w \in calls : w.req = r2 /\ w.op = "createInvoices"
    /\ reqs[r2].body.campaignRef # reqs[r1].body.campaignRef
    /\ reqs[r2].body.campaignRef \notin DOMAIN mem.accrualByCampaign

\* the document a webhook request is working on
BillOf(q) == q.body.rawBody.events[q.i].resourceId

\* lines is original with every accountCode replaced by code
IsRecodingOf(lines, original, code) ==
  /\ Len(lines) = Len(original)
  /\ \A k \in 1..Len(original) :
       /\ lines[k].accountCode = code
       /\ lines[k].description = original[k].description
       /\ lines[k].quantity = original[k].quantity
       /\ lines[k].unitAmount = original[k].unitAmount
       /\ lines[k].taxType = original[k].taxType

\* C11: the line update a delivery sends for a bill has one line per line of
\* the document as the provider held it when it was fetched, in the same
\* order, each with the accrual account configured at that moment and the
\* original description, quantity, unit amount and tax type; these lines are
\* what the provider receives and stores when the call succeeds.
C11_RecodePreservesLines ==
  [][\A r \in Reqs :
       /\ (reqs'[r].kind = "webhook" /\ reqs'[r].pc = "updateInvoiceLines"
            /\ reqs[r].pc # "updateInvoiceLines") =>
             /\ reqs[r].pc = "getInvoice"
             /\ IsRecodingOf(reqs'[r].newLines, bills[BillOf(reqs'[r])].lineItems,
                             mem'.settings.accrualCode)
       /\ (reqs[r].kind = "webhook" /\ reqs[r].pc = "updateInvoiceLines"
            /\ reqs'[r] # reqs[r]) =>
             LET sent == {w \in calls' \ calls : w.req = r} IN
             /\ \A w \in sent : /\ w.op = "updateInvoiceLines"
                                 /\ w.target = BillOf(reqs[r])
                                 /\ w.lines = reqs[r].newLines
                                 /\ bills'[w.target].lineItems = w.lines
             /\ sent # {} <=> T(reqs[r].i, "updateInvoiceLines", TRUE) \in Awaited(r)']_vars

\* the two lines of bill b2 were recoded to the accrual account that a
\* settings write had configured, everything else as on the original
C11_Witness ==
  \E w \in calls :
    /\ w.op = "updateInvoiceLines" /\ w.target = "b2"
    /\ IsRecodingOf(w.lines, InitialBills["b2"].lineItems, "860")
    /\ InitialBills["b2"].lineItems[1].accountCode # InitialBills["b2"].lineItems[2].accountCode
    /\ bills["b2"].lineItems = w.lines

\* position of an API call in the processing of one event
EventRank(op) ==
  CASE op = "getInvoice" -> 0
    [] op = "updateInvoiceLines" -> 1
    [] op = "updateInvoiceStatus" -> 2
    [] op = "createManualJournals" -> 3
    [] OTHER -> 0

\* within one event the calls a delivery has awaited are in the order fetch,
\* recode, status update, journal, each after the success of the one before;
\* a status update in flight has the event's recode behind it and no journal
C12_Order ==
  \A r \in Webhooks :
    LET tr == reqs[r].trace IN
    /\ \A j, k \in 1..Len(tr) :
         (j < k /\ tr[j].ev = tr[k].ev /\ tr[j].ev > 0) =>
           (EventRank(tr[j].op) < EventRank(tr[k].op) /\ tr[j].ok)
    /\ \A k \in 1..Len(tr) :
         tr[k].op = "updateInvoiceStatus" => T(tr[k].ev, "updateInvoiceLines", TRUE) \in Awaited(r)
    /\ reqs[r].pc = "updateInvoiceStatus" =>
         /\ T(reqs[r].i, "updateInvoiceLines", TRUE) \in Awaited(r)
         /\ \A t \in Awaited(r) : t.ev = reqs[r].i => EventRank(t.op) < 2

\* C12: for an event whose bill passed the filter and whose recode succeeded,
\* the status update to AUTHORISED is issued exactly when autoApproveBills is
\* true at that moment; it is issued nowhere else, so it follows the
\* event's successful recode and precedes the event's variance journal; with
\* the setting false the event goes on to its variance without a status
\* update; and a bill's status changes only when such a status update succeeds.
C12_ApproveIffSetting ==
  /\ []C12_Order
  /\ [][/\ \A r \in Reqs :
             (reqs'[r].kind = "webhook" /\ reqs'[r] # reqs[r]) =>
               LET issued == reqs'[r].pc = "updateInvoiceStatus"
                   recoded == /\ reqs[r].pc = "updateInvoiceLines"
                              /\ reqs'[r].trace =
                                   Append(reqs[r].trace, T(reqs[r].i, "updateInvoiceLines", TRUE))
               IN /\ issued => (recoded /\ reqs'[r].i = reqs[r].i)
                  /\ recoded => /\ issued <=> mem.settings.autoApproveBills
                                /\ ~issued => Len(reqs'[r].outcomes) = Len(reqs[r].outcomes) + 1
        /\ \A b \in DOMAIN bills :
             bills'[b].status # bills[b].status =>
               /\ bills'[b].status = "AUTHORISED"
               /\ \E r \in Reqs :
                    /\ reqs[r].kind = "webhook" /\ reqs[r].pc = "updateInvoiceStatus"
                    /\ BillOf(reqs[r]) = b
                    /\ reqs'[r].trace =
                         Append(reqs[r].trace, T(reqs[r].i, "updateInvoiceStatus", TRUE))]_vars

\* with auto-approve on, one delivery recoded b1, approved it and journaled its
\* variance, in that order; then, with auto-approve off, another delivery
\* recoded b2 and journaled its variance, and b2 is still SUBMITTED
C12_Witness ==
  \E r1, r2 \in Webhooks :
    /\ [k \in 1..Len(reqs[r1].trace) |-> reqs[r1].trace[k].op] =
         <<"getInvoice", "updateInvoiceLines", "updateInvoiceStatus", "createManualJournals">>
    /\ reqs[r1].resp = 200
    /\ bills["b1"].status = "AUTHORISED"
    /\ Len(EventsOf(r2)) > 0 /\ EventsOf(r2)[1].resourceId = "b2"
    /\ T(1, "updateInvoiceLines", TRUE) \in Awaited(r2)
    /\ T(1, "createManualJournals", TRUE) \in Awaited(r2)
    /\ \A t \in Awaited(r2) : t.op # "updateInvoiceStatus"
    /\ bills["b2"].status = "SUBMITTED"
    /\ ~mem.settings.autoApproveBills

\* the delivery passed verifyXeroWebhookSignature
Verified(r) == verifyXeroWebhookSignature(reqs[r].body.signature, reqs[r].body.rawBody)

\* C13: a delivery that passed signature verification is answered 200 only
\* when its payload parsed, a tenant was resolved, every API call it awaited
\* succeeded and every invoice event was fetched and, where recoded, carried
\* through to its journal; a failed call (updateTenants, getInvoice, either
\* updateInvoice, createManualJournals), an unparsable payload or a missing
\* tenant ends it with 500; no call is made twice for the same event.
C13_AckOnlyAfterCleanRun ==
  \A r \in Webhooks :
    Verified(r) =>
      LET tr == reqs[r].trace
          events == EventsOf(r)
      IN /\ reqs[r].resp \in {0, 200, 500}
         /\ reqs[r].resp = 200 =>
              /\ reqs[r].pc = "done"
              /\ reqs[r].body.rawBody.json /\ reqs[r].tenantId # ""
              /\ \A k \in 1..Len(tr) : tr[k].ok
              /\ \A e \in 1..Len(events) :
                   EventIsInvoice(events[e]) => T(e, "getInvoice", TRUE) \in Awaited(r)
              /\ \A t \in Awaited(r) :
                   t.op = "updateInvoiceLines" =>
                     \E o \in Outcomes(r) :
                       /\ o.ev = t.ev
                       /\ o.variance # 0 => T(o.ev, "createManualJournals", TRUE) \in Awaited(r)
         /\ \A k \in 1..Len(tr) :
              ~tr[k].ok => (k = Len(tr) /\ reqs[r].pc = "done" /\ reqs[r].resp = 500)
         /\ (reqs[r].pc = "done" /\ (~reqs[r].body.rawBody.json \/ reqs[r].tenantId = "")) =>
              reqs[r].resp = 500
         /\ \A j, k \in 1..Len(tr) :
              (j # k) => ~(tr[j].ev = tr[k].ev /\ tr[j].op = tr[k].op)

\* one verified delivery recoded a bill, failed on its journal call and was
\* answered 500 with the recode left in place; another ran clean and got 200
C13_Witness ==
  \E r1, r2 \in Webhooks :
    /\ Verified(r1) /\ Verified(r2)
    /\ reqs[r1].resp = 500
    /\ Len(reqs[r1].trace) > 0
    /\ reqs[r1].trace[Len(reqs[r1].trace)] = T(reqs[r1].i, "createManualJournals", FALSE)
    /\ \E w \in calls : w.req = r1 /\ w.op = "updateInvoiceLines"
    /\ reqs[r2].resp = 200
    /\ \E w \in calls : w.req = r2 /\ w.op = "createManualJournals"

\* requireTenant threw for this request: the organisation was not connected,
\* or updateTenants resolved with no tenant
NoTenant(r) ==
  /\ reqs[r].pc = "done" /\ reqs[r].tenantId = ""
  /\ \A t \in Awaited(r) : t.ok
  /\ \/ reqs[r].kind = "campaign"
     \/ reqs[r].kind = "webhook" /\ Verified(r) /\ reqs[r].body.rawBody.json

\* the request wrote nothing to the provider
WroteNothing(r) == \A w \in calls : w.req # r

\* C14 as stated: with no tenant connected, a create-campaign request and a
\* verified webhook delivery are answered 401 (unauthorized) and write nothing.
C14_NoTenantIsUnauthorized ==
  \A r \in Reqs : NoTenant(r) => (reqs[r].resp = 401 /\ WroteNothing(r))

\* the part of C14 the code keeps: such a request writes nothing, and the
\* step that ends it leaves the Ledger and the provider as they were
C14_NoTenantWritesNothing ==
  /\ [](\A r \in Reqs : NoTenant(r) => (reqs[r].resp = 500 /\ WroteNothing(r)))
  /\ [][\A r \in Reqs :
          (NoTenant(r)' /\ reqs'[r] # reqs[r]) =>
            /\ mem'.accrualByCampaign = mem.accrualByCampaign
            /\ calls' = calls /\ bills' = bills]_vars

\* C15: verifyXeroWebhookSignature returns a boolean for every key, signature
\* and payload; it returns true only when the key is set and the signature is
\* the base64 HMAC-SHA256 digest of the payload under that key; it returns
\* false when the key is not set, when the signature is empty, when the
\* signature is not that digest, and when timingSafeEqual throws because the
\* lengths differ.
C15_VerifyTrueOnlyForDigest ==
  \A r \in Reqs :
    (reqs[r].kind = "verify" /\ reqs[r].pc = "returned") =>
      LET signature == reqs[r].body.signature
          digest == HmacSha256Base64(XERO_WEBHOOK_KEY, reqs[r].body.rawBody)
      IN /\ reqs[r].returned \in BOOLEAN
         /\ reqs[r].returned => (XERO_WEBHOOK_KEY # "" /\ signature = digest)
         /\ XERO_WEBHOOK_KEY = "" => ~reqs[r].returned
         /\ signature = NoSignature => ~reqs[r].returned
         /\ signature # digest => ~reqs[r].returned
         /\ timingSafeEqual(signature, digest) = "throw" => ~reqs[r].returned

\* under a key that is set, the digest of the payload was accepted and a
\* signature of another length, on which the comparison throws, was refused
C15_Witness ==
  \E r1, r2 \in Reqs :
    /\ reqs[r1].kind = "verify" /\ reqs[r1].pc = "returned" /\ reqs[r1].returned
    /\ reqs[r2].kind = "verify" /\ reqs[r2].pc = "returned" /\ ~reqs[r2].returned
    /\ XERO_WEBHOOK_KEY # ""
    /\ timingSafeEqual(reqs[r2].body.signature,
                       HmacSha256Base64(XERO_WEBHOOK_KEY, reqs[r2].body.rawBody)) = "throw"

\* the request supplies the option; a form field left empty counts as not
\* supplied
Supplied(v) == v.t # "undefined" /\ v # Str("")

\* the supplied value of an account code or tax name, as a string
SuppliedString(v, previous) == IF Supplied(v) THEN StringOf(v) ELSE previous

\* the settings a write leaves behind according to C16
SettingsAfterWrite(s, b) ==
  [revenueCode |-> SuppliedString(b.revenueCode, s.revenueCode),
   costCode |-> SuppliedString(b.costCode, s.costCode),
   accrualCode |-> SuppliedString(b.accrualCode, s.accrualCode),
   salesTaxName |-> SuppliedString(b.salesTaxName, s.salesTaxName),
   autoApproveBills |-> IF Supplied(b.autoApproveBills)
                          THEN StringOf(b.autoApproveBills) = "true"
                          ELSE s.autoApproveBills]

\* C16: every settings write leaves each supplied option at its supplied
\* value (a string for the codes and the tax name, a boolean for
\* autoApproveBills, so that a supplied false turns auto-approve off) and
\* each option not supplied at its previous value; writes in sequence
\* therefore leave the last writer's values.
C16_SuppliedOptionsStored ==
  [][\A r \in Reqs :
       (reqs[r].kind = "none" /\ reqs'[r].kind = "settings") =>
         mem'.settings = SettingsAfterWrite(mem.settings, reqs'[r].body)]_vars

\* the request's tax lookup resolved and no rate has the requested name
TaxNotFound(r) ==
  /\ T(0, "getTaxRates", TRUE) \in Awaited(r)
  /\ findTaxRateByName(reqs[r].taxName).taxType = ""

\* the request's tax lookup was rejected
TaxLookupFailed(r) == T(0, "getTaxRates", FALSE) \in Awaited(r)

\* the request went on without tax: createInvoices was called with no tax
\* type on the line, and when that call and the journal call succeeded the
\* request was answered 200 with its reference in the Ledger
WentOnWithoutTax(r) ==
  /\ \E t \in Awaited(r) : t.op = "createInvoices"
  /\ \A w \in calls : (w.req = r /\ w.op = "createInvoices") => w.lines[1].taxType = ""
  /\ (T(0, "createInvoices", TRUE) \in Awaited(r)
       /\ T(0, "createManualJournals", TRUE) \in Awaited(r)) =>
        /\ reqs[r].resp = 200
        /\ reqs[r].body.campaignRef \in DOMAIN mem.accrualByCampaign

\* C17 as stated: a create-campaign request whose tax lookup found no rate of
\* the requested name, or whose tax lookup failed, still creates the invoice,
\* without a tax type, and goes on to the accrual journal and the Ledger.
C17_MissingTaxRateTolerated ==
  \A r \in Campaigns :
    (reqs[r].pc = "done" /\ (TaxNotFound(r) \/ TaxLookupFailed(r))) => WentOnWithoutTax(r)

\* the part of C17 the code keeps: a lookup that finds no rate of the
\* requested name is tolerated
C17_NoMatchTolerated ==
  \A r \in Campaigns : (reqs[r].pc = "done" /\ TaxNotFound(r)) => WentOnWithoutTax(r)

\* two create-campaign requests for one reference, both answered 200, the
\* later of which arrived while the earlier was still awaiting its calls
BothSucceededInterleaved(r1, r2) ==
  /\ r1 \in Campaigns /\ r2 \in Campaigns /\ r1 < r2
  /\ reqs[r1].resp = 200 /\ reqs[r2].resp = 200
  /\ reqs[r1].body.campaignRef = reqs[r2].body.campaignRef
  /\ \E w \in calls : w.req = r1 /\ w.op = "createManualJournals" /\ w.started >= r2

\* C18 as stated, on the requests it speaks of: two create-campaign requests
\* for one reference that interleaved at their awaits and both succeeded have
\* left an accrued total below the sum of their two expectedCostNet values.
C18_InterleavedRequestsLoseAnUpdate ==
  \A r1, r2 \in Reqs :
    BothSucceededInterleaved(r1, r2) =>
      Accrued(mem, reqs[r1].body.campaignRef) <
        reqs[r1].body.expectedCostNet[1] + reqs[r2].body.expectedCostNet[1]

\* C18, amended: no update of the Ledger is lost.  Whenever two
\* create-campaign requests for one reference have both succeeded, however
\* they interleaved at their awaits, the accrued total of the reference holds
\* both amounts: it is the sum of expectedCostNet over the requests for the
\* reference that succeeded.
C18_NoLostUpdate ==
  \A r1, r2 \in Campaigns :
    (/\ r1 < r2
     /\ reqs[r1].resp = 200 /\ reqs[r2].resp = 200
     /\ reqs[r1].body.campaignRef = reqs[r2].body.campaignRef) =>
      LET ref == reqs[r1].body.campaignRef IN
      /\ Accrued(mem, ref) >=
           reqs[r1].body.expectedCostNet[1] + reqs[r2].body.expectedCostNet[1]
      /\ Accrued(mem, ref) = CostSum(Succeeded(ref))

\* the second request arrived before the first one's invoice call resolved,
\* both went through their invoice and journal calls and were answered 200,
\* and the total is the sum of their two different amounts
C18_Witness ==
  \E r1, r2 \in Reqs :
    /\ BothSucceededInterleaved(r1, r2)
    /\ \E w \in calls : w.req = r1 /\ w.op = "createInvoices" /\ w.started >= r2
    /\ reqs[r1].body.expectedCostNet # reqs[r2].body.expectedCostNet
    /\ Accrued(mem, reqs[r1].body.campaignRef) =
         reqs[r1].body.expectedCostNet[1] + reqs[r2].body.expectedCostNet[1]

\* C19: whenever a delivery issues a line update or a status update for a
\* bill, the bill's status at the provider is DRAFT or SUBMITTED at that moment.
C19_FinalNeverTouched ==
  [][\A r \in Reqs :
       (/\ reqs'[r].kind = "webhook"
        /\ reqs'[r].pc \in {"updateInvoiceLines", "updateInvoiceStatus"}
        /\ reqs'[r].pc # reqs[r].pc) =>
         Editable(bills'[BillOf(reqs'[r])].status)]_vars

\* sum of unitAmount times quantity over the lines
RECURSIVE SumOfLines(_)
SumOfLines(lines) ==
  IF lines = <<>> THEN 0
  ELSE Head(lines).unitAmount * Head(lines).quantity + SumOfLines(Tail(lines))

\* the line update a delivery made for an event
RecodeOf(r, ev) == {w \in WritesOf(r, ev) : w.op = "updateInvoiceLines"}

\* C20: for every bill a delivery has taken the variance of, netBill is the
\* sum of unitAmount times quantity over the recoded lines, a line of
\* quantity 0 counting 0, and variance is netBill minus the accrued total of
\* the bill's reference, rounded to two decimals.
C20_NetBillIsSumOfLines ==
  \A r \in Webhooks : \A o \in Outcomes(r) : \A w \in RecodeOf(r, o.ev) :
    /\ o.netBill = SumOfLines(w.lines)
    /\ o.variance = ToFixed2(o.netBill - o.accrued)

\* the part of C20 the code keeps: netBill is that sum whenever no line has
\* quantity 0, and variance is netBill minus accrued rounded to two decimals
C20_NetBillOfNonZeroQuantities ==
  \A r \in Webhooks : \A o \in Outcomes(r) : \A w \in RecodeOf(r, o.ev) :
    /\ (\A k \in 1..Len(w.lines) : w.lines[k].quantity # 0) =>
         o.netBill = SumOfLines(w.lines)
    /\ o.variance = ToFixed2(o.netBill - o.accrued)

\* two lines, of amounts +amount and -amount, neither with a tax type
BalancedUntaxed(lines, amount) ==
  /\ Len(lines) = 2
  /\ lines[1].lineAmount = amount /\ lines[2].lineAmount = -amount
  /\ lines[1].lineAmount + lines[2].lineAmount = 0
  /\ lines[1].taxType = "" /\ lines[2].taxType = ""

\* every journal the provider holds and every journal call in flight is
\* balanced and untaxed, of the amount of its kind
C21_Journals ==
  /\ \A w \in calls :
       w.op = "createManualJournals" =>
         IF w.req \in Campaigns
           THEN BalancedUntaxed(w.lines, reqs[w.req].body.expectedCostNet[1])
           ELSE /\ w.variance # 0
                /\ BalancedUntaxed(w.lines, Abs(w.variance))
  /\ \A r \in Reqs :
       reqs[r].pc = "createManualJournals" =>
         IF r \in Campaigns
           THEN BalancedUntaxed(reqs[r].jl, reqs[r].body.expectedCostNet[1])
           ELSE BalancedUntaxed(reqs[r].jl, Abs(reqs[r].variance))

\* C21: every journal posted has exactly two lines whose amounts sum to zero
\* and no tax type: the accrual journal +expectedCostNet and
\* -expectedCostNet, a variance journal +abs(variance) and -abs(variance);
\* the accrual journal is built with the first line on the cost account and
\* the second on the accrual account configured when the call is made.
C21_JournalsBalancedUntaxed ==
  /\ []C21_Journals
  /\ [][\A r \in Reqs :
          (/\ reqs'[r].kind = "campaign"
           /\ reqs'[r].pc = "createManualJournals"
           /\ reqs[r].pc # "createManualJournals") =>
            /\ reqs'[r].jl[1].accountCode = mem'.settings.costCode
            /\ reqs'[r].jl[2].accountCode = mem'.settings.accrualCode]_vars

\* the provider holds the accrual journal of a campaign of 8.00 and the
\* variance journal of a bill of 8.50 for the same reference
C21_Witness ==
  \E w1, w2 \in calls :
    /\ w1.op = "createManualJournals" /\ w1.req \in Campaigns
    /\ w1.lines[1].lineAmount = 8000 /\ w1.lines[2].lineAmount = -8000
    /\ w2.op = "createManualJournals" /\ w2.req \in Webhooks
    /\ w2.variance = 500 /\ w2.lines[1].lineAmount = 500 /\ w2.lines[2].lineAmount = -500
    /\ w2.ref = reqs[w1.req].body.campaignRef

BillIds == DOMAIN InitialBills

\* the deliveries that carry an invoice event for bill b
DeliveriesOf(b) ==
  {r \in Webhooks : \E e \in 1..Len(EventsOf(r)) :
                      EventIsInvoice(EventsOf(r)[e]) /\ EventsOf(r)[e].resourceId = b}

\* the provider holds a line update of the Reconciler for bill b
Recoded(b) == \E w \in calls : w.op = "updateInvoiceLines" /\ w.target = b

\* a delivery took the variance of bill b and found it zero, or posted its journal
Reconciled(b) ==
  \E r \in Webhooks : \E o \in Outcomes(r) :
    /\ EventsOf(r)[o.ev].resourceId = b
    /\ o.variance = 0 \/ T(o.ev, "createManualJournals", TRUE) \in Awaited(r)

\* the last delivery that carried bill b was not acknowledged: the provider
\* has a redelivery to make
RedeliveryOwed(b) ==
  \E r \in DeliveriesOf(b) :
    /\ reqs[r].pc = "done" /\ reqs[r].resp # 200
    /\ \A r2 \in DeliveriesOf(b) : r2 <= r

\* C22: a bill the Reconciler has recoded becomes reconciled (its variance
\* journal posted, or its variance found zero), unless the provider still has
\* a failed delivery of the bill to repeat; no bill stays recoded and
\* unreconciled once its last delivery has been acknowledged.
C22_RecodedLeadsToReconciled ==
  \A b \in BillIds : Recoded(b) ~> (Reconciled(b) \/ RedeliveryOwed(b))

\* the accrual journals and the sales invoices the provider holds
AccrualJournals == {w \in calls : w.op = "createManualJournals" /\ w.req \in Campaigns}
SalesInvoices == {w \in calls : w.op = "createInvoices"}

\* sum of the amounts of the accrual journals in S
RECURSIVE JournalSum(_)
JournalSum(S) ==
  IF S = {} THEN 0
  ELSE LET w == CHOOSE x \in S : TRUE
       IN w.lines[1].lineAmount + JournalSum(S \ {w})

\* C23: whenever a delivery reads the Ledger to take a variance, the accrued
\* total it reads is the sum of the amounts of the accrual journals the
\* provider holds for that reference at that moment; and the provider never
\* holds more accrual journals than sales invoices.
C23_AccruedIsSumOfPostedJournals ==
  /\ [](Cardinality(AccrualJournals) <= Cardinality(SalesInvoices))
  /\ [][\A r \in Reqs :
          (reqs'[r].kind = "webhook" /\ Len(reqs'[r].outcomes) > Len(reqs[r].outcomes)) =>
            LET o == reqs'[r].outcomes[Len(reqs'[r].outcomes)]
            IN o.accrued =
                 JournalSum({w \in AccrualJournals : w.ref = reqs'[r].campaignRef})]_vars

\* the part of C23 the code keeps
C23_NoMoreJournalsThanInvoices ==
  Cardinality(AccrualJournals) <= Cardinality(SalesInvoices)

\* the account of the accrual line of a variance journal
AccrualCodeOf(w) ==
  IF w.variance > 0 THEN w.lines[2].accountCode ELSE w.lines[1].accountCode

\* C24: within one bill event, the accrual account written onto the recoded
\* lines is the accrual account of the event's variance journal, whatever
\* settings writes happen between the two calls.
C24_OneAccrualCodePerEvent ==
  \A r \in Webhooks : \A w \in calls : \A u \in calls :
    (/\ w.req = r /\ u.req = r /\ w.ev = u.ev
     /\ w.op = "createManualJournals" /\ u.op = "updateInvoiceLines") =>
      \A k \in 1..Len(u.lines) : u.lines[k].accountCode = AccrualCodeOf(w)

\* the journal of a positive variance: debit cost, credit accrual
FullNetJournal(o, net) ==
  <<[accountCode |-> o.costCode, lineAmount |-> net, taxType |-> ""],
    [accountCode |-> o.accrualCode, lineAmount |-> -net, taxType |-> ""]>>

\* the event's variance journal, of amount net, has been called for: the call
\* is in flight or was awaited, and the provider holds no other journal for it
JournalOfNetCalled(r, o, net) ==
  /\ o.variance = net
  /\ JournalInFlight(r, o.ev) \/ JournalCalls(r, o.ev) # {}
  /\ JournalInFlight(r, o.ev) => reqs[r].jl = FullNetJournal(o, net)
  /\ \A w \in Journals(r, o.ev) : w.lines = FullNetJournal(o, net)

\* C25: a bill that passed the filter and whose reference has no Ledger entry
\* is recoded and its variance taken against an accrued total of 0; when its
\* net amount (sum of unitAmount times quantity, to two decimals) is
\* positive, the variance journal debits the cost account and credits the
\* accrual account by that net amount.
C25_UnmatchedReferenceAccruesZero ==
  \A r \in Webhooks : \A o \in Outcomes(r) : \A u \in RecodeOf(r, o.ev) :
    u.ref \notin DOMAIN mem.accrualByCampaign =>
      /\ o.accrued = 0
      /\ ToFixed2(SumOfLines(u.lines)) > 0 =>
           JournalOfNetCalled(r, o, ToFixed2(SumOfLines(u.lines)))

\* the part of C25 the code keeps: the same for the bills none of whose
\* lines has quantity 0
C25_UnmatchedReferenceNonZeroQuantities ==
  \A r \in Webhooks : \A o \in Outcomes(r) : \A u \in RecodeOf(r, o.ev) :
    (/\ u.ref \notin DOMAIN mem.accrualByCampaign
     /\ \A k \in 1..Len(u.lines) : u.lines[k].quantity # 0) =>
      /\ o.accrued = 0
      /\ ToFixed2(SumOfLines(u.lines)) > 0 =>
           JournalOfNetCalled(r, o, ToFixed2(SumOfLines(u.lines)))

====
